---- MODULE Spec2Model ----
(***************************************************************************)
(* A model of citest's structural predicate engine                         *)
(* (citest/json_predicate/binary_predicate.py).                            *)
(*                                                                         *)
(* Python values are records tagged with their class, t:                   *)
(*   int / long / float / bool : n is the numeric value (bool: 0 or 1);    *)
(*   str        : s is the sequence of its characters;                     *)
(*   NoneType   : no payload;                                              *)
(*   list       : elems is the sequence of its elements;                   *)
(*   dict       : items is the sequence of <<key, value>> items in the     *)
(*                order in which the mapping iterates (keys are unique);   *)
(*   function   : reads is the context key a deferred operand reads.       *)
(* Keys of dicts are non-empty strings without '/', each the sequence of   *)
(* its characters like the payload of a str. A path 'a/b' is the sequence  *)
(* <<a, b>> of its segments, '' is <<>>.                                   *)
(* An exception that leaves an evaluation is the result of kind "raise".   *)
(***************************************************************************)
EXTENDS Integers, Sequences, FiniteSets, TLC

VARIABLES pc, args, pred, context, value, result

(* AgentTestCase.run_test_case: where the call is, its arguments, the loop
   index, the status of each attempt and of the current one, the exception
   being raised, the test log, the parts of the report section and what
   assertFinalStatusOk did. *)
VARIABLES tc_pc, tc_args, tc_i, attempts, status, exception, log, parts,
          status_check

(* The frames of the threads that evaluate one predicate instance at the
   same time: the locals of each evaluation. *)
VARIABLES threads

predVars == <<pc, args, pred, context, value, result, threads>>

testVars ==
  <<tc_pc, tc_args, tc_i, attempts, status, exception, log, parts, status_check>>

vars == <<predVars, testVars>>

-----------------------------------------------------------------------------
(* Bounds of the input domains. *)

MaxInt == 2
MaxStrLen == 2
MaxListLen == 3
MaxPatterns == 2
MaxPolyLen == 2
MaxRetries == 2

-----------------------------------------------------------------------------
(* Python values. *)

PyInt(n) == [t |-> "int", n |-> n]
PyFloat(n) == [t |-> "float", n |-> n]
PyBool(n) == [t |-> "bool", n |-> n]
PyStr(s) == [t |-> "str", s |-> s]
PyNone == [t |-> "NoneType"]
PyList(elems) == [t |-> "list", elems |-> elems]
PyDict(items) == [t |-> "dict", items |-> items]
PyCallable(k) == [t |-> "function", reads |-> k]

(* The classes isinstance() is asked about; bool is a subclass of int. *)
IntT == {"int", "bool"}
NumT == {"int", "bool", "long", "float"}
StrT == {"str"}
DictT == {"dict"}
ListT == {"list"}
NoType == {}

isinstance(x, T) == x.t \in T

callable(x) == x.t = "function"

(* dict helpers: keys(), `name in d`, d[name]. *)
DictKeys(d) == {d.items[i][1] : i \in 1..Len(d.items)}

HasKey(d, k) == \E i \in 1..Len(d.items) : d.items[i][1] = k

DictGet(d, k) == d.items[CHOOSE i \in 1..Len(d.items) : d.items[i][1] = k][2]

(* Python's ==. Numbers compare by value whatever their class (True == 1,
   1 == 1.0); dicts compare as mappings, lists element by element. *)
RECURSIVE PyEq(_, _)
PyEq(a, b) ==
  IF a.t \in NumT /\ b.t \in NumT THEN a.n = b.n
  ELSE IF a.t # b.t THEN FALSE
  ELSE IF a.t = "list"
    THEN Len(a.elems) = Len(b.elems) /\ \A i \in 1..Len(a.elems) : PyEq(a.elems[i], b.elems[i])
  ELSE IF a.t = "dict"
    THEN /\ DictKeys(a) = DictKeys(b)
         /\ \A k \in DictKeys(a) : PyEq(DictGet(a, k), DictGet(b, k))
  ELSE a = b

(* elem in the_list *)
PyIn(elem, lst) == \E i \in 1..Len(lst.elems) : PyEq(lst.elems[i], elem)

(* a.find(b) >= 0 on strings: b occurs in a as a contiguous run. *)
StrFind(a, b) ==
  \E i \in 0..(Len(a.s) - Len(b.s)) :
    \A j \in 1..Len(b.s) : a.s[i + j] = b.s[j]

(* Python 2's default ordering, a < b: None sorts before every number, a
   number before every other object, objects of different classes by class
   name ('list' < 'str'); strings and lists order lexicographically. (The
   order of two dicts is not modelled: no dict is ever sorted here.) *)
TypeRank(x) ==
  IF x.t = "NoneType" THEN 0
  ELSE IF x.t \in NumT THEN 1
  ELSE IF x.t = "dict" THEN 2
  ELSE IF x.t = "list" THEN 3
  ELSE 4

CharRank(c) == CHOOSE i \in 1..3 : <<"a", "b", "c">>[i] = c

RECURSIVE StrLt(_, _)
StrLt(s, u) ==
  IF u = <<>> THEN FALSE
  ELSE IF s = <<>> THEN TRUE
  ELSE IF Head(s) # Head(u) THEN CharRank(Head(s)) < CharRank(Head(u))
  ELSE StrLt(Tail(s), Tail(u))

RECURSIVE PyLt(_, _)
RECURSIVE ListLt(_, _)
ListLt(s, u) ==
  IF u = <<>> THEN FALSE
  ELSE IF s = <<>> THEN TRUE
  ELSE IF ~PyEq(Head(s), Head(u)) THEN PyLt(Head(s), Head(u))
  ELSE ListLt(Tail(s), Tail(u))

PyLt(a, b) ==
  IF TypeRank(a) # TypeRank(b) THEN TypeRank(a) < TypeRank(b)
  ELSE IF TypeRank(a) = 1 THEN a.n < b.n
  ELSE IF TypeRank(a) = 3 THEN ListLt(a.elems, b.elems)
  ELSE IF TypeRank(a) = 4 THEN StrLt(a.s, b.s)
  ELSE FALSE

(* sorted(): a stable sort by PyLt. *)
RECURSIVE Insert(_, _)
Insert(x, s) ==
  IF s = <<>> THEN <<x>>
  ELSE IF PyLt(x, Head(s)) THEN <<x>> \o s
  ELSE <<Head(s)>> \o Insert(x, Tail(s))

RECURSIVE sorted(_)
sorted(s) == IF s = <<>> THEN <<>> ELSE Insert(s[Len(s)], sorted(SubSeq(s, 1, Len(s) - 1)))

-----------------------------------------------------------------------------
(* Results. An exception leaving a call is [t |-> "raise", exc |-> class]. *)

Raise(exc) == [t |-> "raise", exc |-> exc]

IsRaise(x) == x.t = "raise"

(* x bound to a name: K(x). *)
With(x, K(_)) == K(x)

(* The exception r propagates; otherwise the code goes on with r. *)
Propagate(r, K(_)) == IF IsRaise(r) THEN r ELSE K(r)

PathValue(path, val) == [path |-> path, value |-> val]

NoPathValue == [path |-> <<>>, value |-> PyNone]

PathValueResult(p, source, target_path, path_value, valid) ==
  [t |-> "PathValueResult", pred |-> p, source |-> source,
   target_path |-> target_path, path_value |-> path_value, valid |-> valid]

TypeMismatchError(expect, got, source, target_path, path_value) ==
  [t |-> "TypeMismatchError", expect |-> expect, got |-> got, source |-> source,
   target_path |-> target_path, path_value |-> path_value, valid |-> FALSE]

MissingPathError(source, target_path, path_value) ==
  [t |-> "MissingPathError", source |-> source,
   target_path |-> target_path, path_value |-> path_value, valid |-> FALSE]

UnexpectedPathError(source, target_path, path_value) ==
  [t |-> "UnexpectedPathError", source |-> source,
   target_path |-> target_path, path_value |-> path_value, valid |-> FALSE]

(* result.clone_with_source(source, base_target_path, base_value_path): the
   same outcome relocated under the field it was computed for. *)
clone_with_source(r, source, base_target_path, base_value_path) ==
  [r EXCEPT !.source = source,
            !.target_path = base_target_path \o r.target_path,
            !.path_value = PathValue(<<base_value_path>> \o r.path_value.path,
                                     r.path_value.value)]

(* context.eval(x): a callable is invoked with the context, anything else is
   returned unchanged. *)
context_eval(ctx, x) == IF callable(x) THEN ctx[x.reads] ELSE x

-----------------------------------------------------------------------------
(* BinaryPredicate and the standard factories. *)

BinaryPredicate_init(cls, name, operand, operand_type, strict, unique, op) ==
  IF operand_type # NoType /\ ~callable(operand) /\ ~isinstance(operand, operand_type)
    THEN Raise("TypeError")
    ELSE [t |-> cls, name |-> name, operand |-> operand,
          operand_type |-> operand_type, strict |-> strict, unique |-> unique,
          comparison_op |-> op]

(* The operand resolved without the type check. *)
eval_context_operand_unchecked(self, ctx) == context_eval(ctx, self.operand)

eval_context_operand(self, ctx) ==
  LET operand == context_eval(ctx, self.operand) IN
  IF self.operand_type # NoType /\ ~isinstance(operand, self.operand_type)
    THEN Raise("TypeError")
    ELSE operand

StandardBinaryPredicateFactory(name, op, operand_type) ==
  [name |-> name, comparison_op |-> op, operand_type |-> operand_type]

StandardBinaryPredicateFactory_call(factory, operand) ==
  BinaryPredicate_init("StandardBinaryPredicate", factory.name, operand,
                       factory.operand_type, FALSE, FALSE, factory.comparison_op)

NUM_LE == StandardBinaryPredicateFactory("<=", "le", NumT)
NUM_GE == StandardBinaryPredicateFactory(">=", "ge", NumT)
NUM_EQ == StandardBinaryPredicateFactory("==", "eq", NumT)
NUM_NE == StandardBinaryPredicateFactory("!=", "ne", NumT)
STR_SUBSTR == StandardBinaryPredicateFactory("has-substring", "find", StrT)
STR_EQ == StandardBinaryPredicateFactory("==", "eq", StrT)
STR_NE == StandardBinaryPredicateFactory("!=", "ne", StrT)
DICT_EQ == StandardBinaryPredicateFactory("==", "eq", DictT)
DICT_NE == StandardBinaryPredicateFactory("!=", "ne", DictT)
LIST_EQ == StandardBinaryPredicateFactory("==", "eq", ListT)
LIST_NE == StandardBinaryPredicateFactory("!=", "ne", ListT)
LIST_SIMILAR == StandardBinaryPredicateFactory("~=", "lists_equivalent", ListT)

(* What len() and sorted() iterate over: the elements of a list, the keys of
   a dict, the characters of a str. *)
Iterated(x) ==
  IF x.t = "dict" THEN [i \in 1..Len(x.items) |-> PyStr(x.items[i][1])]
  ELSE IF x.t = "str" THEN [i \in 1..Len(x.s) |-> PyStr(<<x.s[i]>>)]
  ELSE x.elems

(* The element-wise comparison without sorting. *)
lists_equivalent_unsorted(a, b) ==
  IF Len(a.elems) # Len(b.elems) THEN FALSE
  ELSE \A index \in 1..Len(a.elems) : PyEq(b.elems[index], a.elems[index])

(* lists_equivalent(a, b): same length and equal once each is sorted. *)
lists_equivalent(a, b) ==
  IF Len(Iterated(a)) # Len(Iterated(b)) THEN FALSE
  ELSE LET sorted_a == sorted(Iterated(a))
           sorted_b == sorted(Iterated(b))
       IN \A index \in 1..Len(sorted_a) : PyEq(sorted_b[index], sorted_a[index])

(* The lambdas bound into the factories, applied as comparison_op(value, operand). *)
comparison_op(op, a, b) ==
  CASE op = "le" -> PyLt(a, b) \/ PyEq(a, b)
    [] op = "ge" -> ~PyLt(a, b)
    [] op = "eq" -> PyEq(a, b)
    [] op = "ne" -> ~PyEq(a, b)
    [] op = "find" -> StrFind(a, b)
    [] op = "lists_equivalent" -> lists_equivalent(a, b)

(* The comparisons that raise: a.find(b) of a b that is no string, and
   len(b) of a b that has no length. *)
comparison_op_raises(op, a, b) ==
  \/ op = "find" /\ ~isinstance(b, StrT)
  \/ op = "lists_equivalent" /\ ~isinstance(b, ListT \cup DictT \cup StrT)

StandardBinaryPredicate_call(self, ctx, val) ==
  LET operand == eval_context_operand(self, ctx) IN
  IF IsRaise(operand) THEN operand
  ELSE IF self.operand_type # NoType /\ ~isinstance(val, self.operand_type)
    THEN TypeMismatchError(self.operand_type, val.t, val, <<>>, NoPathValue)
  ELSE IF comparison_op_raises(self.comparison_op, val, operand)
    THEN Raise("TypeError")
  ELSE PathValueResult(self, val, <<>>, PathValue(<<>>, val),
                       comparison_op(self.comparison_op, val, operand))

-----------------------------------------------------------------------------
(* Constructors of the container predicates. *)

DictMatchesPredicate_init(operand, strict) ==
  IF ~isinstance(operand, DictT) THEN Raise("TypeError")
  ELSE BinaryPredicate_init("DictMatchesPredicate", "Matches", operand, NoType,
                            strict, FALSE, "none")

ListMatchesPredicate_init(operand, strict, unique) ==
  IF ~isinstance(operand, ListT) THEN Raise("TypeError")
  ELSE BinaryPredicate_init("ListMatchesPredicate", "Matches", operand, NoType,
                            strict, unique, "none")

DictSubsetPredicate_init(operand) ==
  IF ~(isinstance(operand, DictT) \/ callable(operand)) THEN Raise("TypeError")
  ELSE BinaryPredicate_init("DictSubsetPredicate", "has-subset", operand, DictT,
                            FALSE, FALSE, "none")

ListSubsetPredicate_init(operand, strict) ==
  IF ~isinstance(operand, ListT) THEN Raise("TypeError")
  ELSE BinaryPredicate_init("ListSubsetPredicate", "has-subset", operand, NoType,
                            strict, FALSE, "none")

ContainsPredicate_init(operand) ==
  BinaryPredicate_init("ContainsPredicate", "Contains", operand, NoType,
                       FALSE, FALSE, "none")

EquivalentPredicate_init(operand) ==
  BinaryPredicate_init("EquivalentPredicate", "Equivalent", operand, NoType,
                       FALSE, FALSE, "none")

DifferentPredicate_init(operand) ==
  BinaryPredicate_init("DifferentPredicate", "Different", operand, NoType,
                       FALSE, FALSE, "none")

DICT_SUBSET(operand) == DictSubsetPredicate_init(operand)
LIST_SUBSET(operand) == ListSubsetPredicate_init(operand, FALSE)
CONTAINS(operand) == ContainsPredicate_init(operand)
EQUIVALENT(operand) == EquivalentPredicate_init(operand)
DIFFERENT(operand) == DifferentPredicate_init(operand)

-----------------------------------------------------------------------------
(* Subset, membership and Contains: mutually recursive evaluation. *)

RECURSIVE DictSubsetPredicate_is_subset(_, _, _, _, _, _, _)
RECURSIVE BaseListMembershipPredicate_verify_elem(_, _, _, _)
RECURSIVE AnyMemberSatisfies(_, _, _, _)
RECURSIVE ListSubsetPredicate_elems(_, _, _, _, _)
RECURSIVE ContainsPredicate_elems(_, _, _, _, _)
RECURSIVE ContainsPredicate_call(_, _, _)

DictSubsetPredicate_call(self, ctx, val) ==
  IF ~isinstance(val, DictT)
    THEN TypeMismatchError(DictT, val.t, val, <<>>, NoPathValue)
  ELSE Propagate(eval_context_operand(self, ctx), LAMBDA operand :
         DictSubsetPredicate_is_subset(self, ctx, val, <<>>, operand, val, 1))

ListSubsetPredicate_call(self, ctx, val) ==
  IF ~isinstance(val, ListT)
    THEN TypeMismatchError(ListT, val.t, val, <<>>, NoPathValue)
  ELSE Propagate(eval_context_operand(self, ctx), LAMBDA operand :
         ListSubsetPredicate_elems(self, ctx, operand, val, 1))

(* The scalar branch of _is_subset: the operand's field differs from the
   value's. *)
ScalarMismatch(source, path, namepath, a_value, b, b_value) ==
  LET confirm_type == IF isinstance(b_value, StrT) THEN StrT
                      ELSE IF isinstance(b_value, NumT) THEN NumT
                      ELSE NoType
      made == IF isinstance(b_value, StrT)
                THEN StandardBinaryPredicateFactory_call(STR_EQ, a_value)
              ELSE IF isinstance(b_value, NumT)
                THEN StandardBinaryPredicateFactory_call(NUM_EQ, a_value)
              ELSE EQUIVALENT(a_value)
  IN IF confirm_type # NoType /\ ~isinstance(a_value, confirm_type)
       THEN TypeMismatchError(confirm_type, a_value.t, source, namepath,
                              PathValue(path, b))
     ELSE IF IsRaise(made) THEN made
     ELSE PathValueResult(made, source, namepath,
                          PathValue(namepath, b_value), FALSE)

(* namepath = '{0}/{1}'.format(path, name) if path else name *)
(* namepath without the enclosing path. *)
NamePath_withoutParent(path, name) == <<name>>

NamePath(path, name) == IF path # <<>> THEN Append(path, name) ELSE <<name>>

(* _is_subset(context, source, path, a, b), from the i-th item of a.items(). *)
DictSubsetPredicate_is_subset(self, ctx, source, path, a, b, i) ==
  IF ~isinstance(a, DictT) THEN Raise("AttributeError")
  ELSE IF i > Len(a.items)
    THEN PathValueResult(self, source, path, PathValue(path, b), TRUE)
  ELSE
    LET name == a.items[i][1]
        a_value == a.items[i][2]
        namepath == NamePath(path, name)
    IN
    IF ~HasKey(b, name)
      THEN MissingPathError(source, namepath, PathValue(path, b))
    ELSE
      LET b_value == DictGet(b, name) IN
      IF isinstance(b_value, DictT) THEN
        Propagate(DictSubsetPredicate_is_subset(self, ctx, source, namepath,
                                                a_value, b_value, 1),
          LAMBDA sub :
            IF ~sub.valid THEN sub
            ELSE DictSubsetPredicate_is_subset(self, ctx, source, path, a, b, i + 1))
      ELSE IF isinstance(b_value, ListT) THEN
        Propagate(
          IF isinstance(a_value, ListT)
            THEN Propagate(LIST_SUBSET(a_value), LAMBDA elem_pred :
                   ListSubsetPredicate_call(elem_pred, ctx, b_value))
            ELSE Propagate(CONTAINS(a_value), LAMBDA elem_pred :
                   ContainsPredicate_call(elem_pred, ctx, b_value)),
          LAMBDA sub :
            IF ~sub.valid THEN clone_with_source(sub, source, namepath, name)
            ELSE DictSubsetPredicate_is_subset(self, ctx, source, path, a, b, i + 1))
      ELSE
        With(context_eval(ctx, a_value), LAMBDA resolved :
          IF ~PyEq(resolved, b_value)
            THEN ScalarMismatch(source, path, namepath, resolved, b, b_value)
          ELSE DictSubsetPredicate_is_subset(self, ctx, source, path, a, b, i + 1))

(* The loop `for value in the_list: if pred(context, value): return True`
   of _verify_elem, from the i-th member: TRUE, FALSE or the exception. *)
AnyMemberSatisfies(p, ctx, the_list, i) ==
  IF i > Len(the_list.elems) THEN PyBool(0)
  ELSE Propagate(
         IF p.t = "ListSubsetPredicate"
           THEN ListSubsetPredicate_call(p, ctx, the_list.elems[i])
           ELSE DictSubsetPredicate_call(p, ctx, the_list.elems[i]),
         LAMBDA r : IF r.valid THEN PyBool(1)
                    ELSE AnyMemberSatisfies(p, ctx, the_list, i + 1))

BaseListMembershipPredicate_verify_elem(self, ctx, elem, the_list) ==
  IF self.strict \/ isinstance(elem, NumT \cup StrT)
    THEN IF PyIn(elem, context_eval(ctx, the_list)) THEN PyBool(1) ELSE PyBool(0)
  ELSE IF isinstance(elem, ListT)
    THEN AnyMemberSatisfies(LIST_SUBSET(elem), ctx, the_list, 1)
  ELSE IF isinstance(elem, DictT)
    THEN AnyMemberSatisfies(DICT_SUBSET(elem), ctx, the_list, 1)
  ELSE Raise("TypeError")

(* ListSubsetPredicate.__call__'s loop over the operand, from its i-th element. *)
ListSubsetPredicate_elems(self, ctx, operand, val, i) ==
  IF i > Len(operand.elems)
    THEN PathValueResult(self, val, <<>>, PathValue(<<>>, val), TRUE)
  ELSE Propagate(
         BaseListMembershipPredicate_verify_elem(self, ctx, operand.elems[i], val),
         LAMBDA ok :
           IF ok.n = 0
             THEN PathValueResult(self, val, <<>>, PathValue(<<>>, val), FALSE)
           ELSE ListSubsetPredicate_elems(self, ctx, operand, val, i + 1))

(* `isinstance(value, int or long or float)` is isinstance(value, int). *)
IntOrLongOrFloat == IntT

ContainsPredicate_call(self, ctx, val) ==
  IF isinstance(val, StrT) THEN
    Propagate(StandardBinaryPredicateFactory_call(STR_SUBSTR, self.operand),
              LAMBDA p : StandardBinaryPredicate_call(p, ctx, val))
  ELSE IF isinstance(val, DictT) THEN
    Propagate(DICT_SUBSET(self.operand),
              LAMBDA p : DictSubsetPredicate_call(p, ctx, val))
  ELSE IF isinstance(val, IntOrLongOrFloat) THEN
    Propagate(StandardBinaryPredicateFactory_call(NUM_EQ, self.operand),
              LAMBDA p : StandardBinaryPredicate_call(p, ctx, val))
  ELSE IF ~isinstance(val, ListT) THEN Raise("NotImplementedError")
  ELSE IF isinstance(self.operand, ListT) THEN
    Propagate(LIST_SUBSET(self.operand),
              LAMBDA p : ListSubsetPredicate_call(p, ctx, val))
  ELSE ContainsPredicate_elems(self, ctx, val, 1, <<>>)

(* The existential loop of ContainsPredicate.__call__, from the i-th element;
   bad_values holds the elements that did not contain the operand. *)
ContainsPredicate_elems(self, ctx, val, i, bad_values) ==
  IF i > Len(val.elems)
    THEN PathValueResult(self, val, <<>>, PathValue(<<>>, PyList(bad_values)), FALSE)
  ELSE Propagate(ContainsPredicate_call(self, ctx, val.elems[i]), LAMBDA r :
         IF r.valid THEN r
         ELSE ContainsPredicate_elems(self, ctx, val, i + 1,
                                      Append(bad_values, val.elems[i])))

-----------------------------------------------------------------------------
(* EquivalentPredicate and DifferentPredicate. *)

(* __check_operand_and_call, the same in both classes. *)
check_operand_and_call(self, ctx, operand_type, val, pred_factory) ==
  LET operand == context_eval(ctx, self.operand) IN
  IF ~isinstance(operand, operand_type)
    THEN TypeMismatchError(operand_type, operand.t, val, <<>>, NoPathValue)
  ELSE Propagate(StandardBinaryPredicateFactory_call(pred_factory, operand),
                 LAMBDA p : StandardBinaryPredicate_call(p, ctx, val))

EquivalentPredicate_call(self, ctx, val) ==
  IF isinstance(val, StrT) THEN check_operand_and_call(self, ctx, StrT, val, STR_EQ)
  ELSE IF isinstance(val, DictT)
    THEN check_operand_and_call(self, ctx, DictT, val, DICT_EQ)
  ELSE IF isinstance(val, ListT)
    THEN check_operand_and_call(self, ctx, ListT, val, LIST_SIMILAR)
  ELSE IF isinstance(val, IntOrLongOrFloat)
    THEN check_operand_and_call(self, ctx, NumT, val, NUM_EQ)
  ELSE Raise("NotImplementedError")

DifferentPredicate_call(self, ctx, val) ==
  IF isinstance(val, StrT) THEN check_operand_and_call(self, ctx, StrT, val, STR_NE)
  ELSE IF isinstance(val, DictT)
    THEN check_operand_and_call(self, ctx, DictT, val, DICT_NE)
  ELSE IF isinstance(val, ListT)
    THEN check_operand_and_call(self, ctx, ListT, val, LIST_NE)
  ELSE IF isinstance(val, IntOrLongOrFloat)
    THEN check_operand_and_call(self, ctx, NumT, val, NUM_NE)
  ELSE Raise("NotImplementedError")

-----------------------------------------------------------------------------
(* The collaborators of the matchers: result builders, PathPredicate and
   MapPredicate. *)

KeyedPredicateResultBuilder(p) == [pred |-> p, results |-> <<>>]

(* results[name] = result *)
add_result(builder, name, r) ==
  IF \E i \in 1..Len(builder.results) : builder.results[i][1] = name
    THEN [builder EXCEPT !.results =
            [i \in 1..Len(builder.results) |->
               IF builder.results[i][1] = name THEN <<name, r>>
               ELSE builder.results[i]]]
    ELSE [builder EXCEPT !.results = Append(builder.results, <<name, r>>)]

RECURSIVE update_results(_, _)
update_results(builder, errors) ==
  IF errors = <<>> THEN builder
  ELSE update_results(add_result(builder, Head(errors)[1], Head(errors)[2]),
                      Tail(errors))

KeyedPredicateResultBuilder_build(builder, valid) ==
  [t |-> "KeyedPredicateResult", pred |-> builder.pred,
   results |-> builder.results, valid |-> valid]

SequencedPredicateResultBuilder(p) == [pred |-> p, results |-> <<>>]

append_result(builder, r) == [builder EXCEPT !.results = Append(builder.results, r)]

extend_results(builder, rs) == [builder EXCEPT !.results = builder.results \o rs]

SequencedPredicateResultBuilder_build(builder, valid) ==
  [t |-> "SequencedPredicateResult", pred |-> builder.pred,
   results |-> builder.results, valid |-> valid]

RECURSIVE Call(_, _, _)

(* PathPredicate(key, pred)(context, value): the predicate projected onto the
   field the key resolves to. *)
PathPredicate_call(key, p, ctx, val) ==
  LET name == context_eval(ctx, key).s IN
  IF ~HasKey(val, name)
    THEN MissingPathError(val, <<name>>, PathValue(<<>>, val))
  ELSE Propagate(Call(p, ctx, DictGet(val, name)), LAMBDA r :
         [t |-> "PathPredicateResult", pred |-> p, source |-> val,
          target_path |-> <<name>> \o r.target_path,
          path_value |-> PathValue(<<name>>, DictGet(val, name)),
          results |-> <<r>>, valid |-> r.valid])

(* MapPredicate(pred, max)(context, value), from the i-th element with the
   results so far: one result per element; valid when at least one element
   satisfies pred and no more than max do. *)
NoMax == -1

RECURSIVE MapPredicate_call(_, _, _, _, _, _)
MapPredicate_call(p, max, ctx, val, i, results) ==
  IF i > Len(val.elems)
    THEN LET good == Cardinality({j \in 1..Len(results) : results[j].valid})
         IN [t |-> "MapPredicateResult", pred |-> p, results |-> results,
             valid |-> good >= 1 /\ (max = NoMax \/ good <= max)]
  ELSE Propagate(Call(p, ctx, val.elems[i]), LAMBDA r :
         MapPredicate_call(p, max, ctx, val, i + 1, Append(results, r)))

-----------------------------------------------------------------------------
(* DictMatchesPredicate. Its operand is a dict whose items are
   <<key, predicate>>, a key being a str or a callable that yields one. *)

(* The loop over self.operand.items(), from the i-th item. *)
RECURSIVE DictMatchesPredicate_fields(_, _, _, _, _, _)
DictMatchesPredicate_fields(self, ctx, val, i, builder, valid) ==
  IF i > Len(self.operand.items) THEN [t |-> "loop", builder |-> builder, valid |-> valid]
  ELSE LET key == self.operand.items[i][1]
           p == self.operand.items[i][2]
           name == context_eval(ctx, key).s
       IN Propagate(PathPredicate_call(key, p, ctx, val), LAMBDA name_result :
            DictMatchesPredicate_fields(self, ctx, val, i + 1,
              add_result(builder, name, name_result),
              IF ~name_result.valid THEN FALSE ELSE valid))

(* `key not in expect_keys`, expect_keys being the operand's keys as bound. *)
KeyExpected(self, key) ==
  \E i \in 1..Len(self.operand.items) : PyEq(self.operand.items[i][1], PyStr(key))

RECURSIVE DictMatchesPredicate_find_unexpected_path_errors(_, _, _)
DictMatchesPredicate_find_unexpected_path_errors(self, source, i) ==
  IF i > Len(source.items) THEN <<>>
  ELSE LET key == source.items[i][1]
           rest == DictMatchesPredicate_find_unexpected_path_errors(self, source, i + 1)
       IN IF ~KeyExpected(self, key)
            THEN << <<key, UnexpectedPathError(source, <<key>>,
                                               PathValue(<<key>>, source.items[i][2]))>> >>
                 \o rest
            ELSE rest

DictMatchesPredicate_call(self, ctx, val) ==
  IF ~isinstance(val, DictT)
    THEN TypeMismatchError(DictT, val.t, val, <<>>, NoPathValue)
  ELSE
    Propagate(
      DictMatchesPredicate_fields(self, ctx, val, 1,
                                  KeyedPredicateResultBuilder(self), TRUE),
      LAMBDA loop :
        IF self.strict THEN
          With(DictMatchesPredicate_find_unexpected_path_errors(self, val, 1),
            LAMBDA strictness_errors :
              IF strictness_errors # <<>>
                THEN KeyedPredicateResultBuilder_build(
                       update_results(loop.builder, strictness_errors), FALSE)
                ELSE KeyedPredicateResultBuilder_build(loop.builder, loop.valid))
        ELSE KeyedPredicateResultBuilder_build(loop.builder, loop.valid))

-----------------------------------------------------------------------------
(* ListMatchesPredicate. *)

(* max_count: 1 if unique, else None. *)
(* max_count left unset although unique is. *)
MaxCount_unset(self) == NoMax

MaxCount(self) == IF self.unique THEN 1 ELSE NoMax

(* The loop over self.operand, from the i-th pattern. *)
RECURSIVE ListMatchesPredicate_patterns(_, _, _, _, _, _, _)
ListMatchesPredicate_patterns(self, ctx, val, i, builder, valid, matched_element_count) ==
  IF i > Len(self.operand.elems)
    THEN [t |-> "loop", builder |-> builder, valid |-> valid,
          matched_element_count |-> matched_element_count]
  ELSE Propagate(
         MapPredicate_call(self.operand.elems[i], MaxCount(self), ctx, val, 1, <<>>),
         LAMBDA pred_result :
           ListMatchesPredicate_patterns(self, ctx, val, i + 1,
             append_result(builder, pred_result),
             IF ~pred_result.valid THEN FALSE ELSE valid,
             [index \in 1..Len(val.elems) |->
                matched_element_count[index]
                  + (IF pred_result.results[index].valid THEN 1 ELSE 0)]))

(* Python's '[{0}]'.format(index), index counted from zero: the characters
   of the path segment. *)
Digits == <<"0", "1", "2", "3", "4", "5", "6", "7", "8", "9">>

(* The index counted from one. *)
IndexPath_fromOne(index) == <<"[", Digits[index + 1], "]">>

IndexPath(index) == <<"[", Digits[(index - 1) + 1], "]">>

RECURSIVE ListMatchesPredicate_find_strictness_errors(_, _, _)
ListMatchesPredicate_find_strictness_errors(matched_element_count, source, index) ==
  IF index > Len(matched_element_count) THEN <<>>
  ELSE LET rest == ListMatchesPredicate_find_strictness_errors(
                     matched_element_count, source, index + 1)
       IN IF matched_element_count[index] = 0
            THEN <<UnexpectedPathError(source, <<IndexPath(index)>>,
                     PathValue(<<IndexPath(index)>>, source.elems[index]))>> \o rest
            ELSE rest

ListMatchesPredicate_call(self, ctx, val) ==
  IF ~isinstance(val, ListT)
    THEN TypeMismatchError(ListT, val.t, val, <<>>, NoPathValue)
  ELSE
    Propagate(
      ListMatchesPredicate_patterns(self, ctx, val, 1,
        SequencedPredicateResultBuilder(self), TRUE,
        [index \in 1..Len(val.elems) |-> 0]),
      LAMBDA loop :
        IF self.strict THEN
          With(ListMatchesPredicate_find_strictness_errors(
                 loop.matched_element_count, val, 1),
            LAMBDA strictness_errors :
              IF strictness_errors # <<>>
                THEN SequencedPredicateResultBuilder_build(
                       extend_results(loop.builder, strictness_errors), FALSE)
                ELSE SequencedPredicateResultBuilder_build(loop.builder, loop.valid))
        ELSE SequencedPredicateResultBuilder_build(loop.builder, loop.valid))

-----------------------------------------------------------------------------
(* pred(context, value): dispatch on the predicate's class. *)

Call(p, ctx, val) ==
  CASE p.t = "StandardBinaryPredicate" -> StandardBinaryPredicate_call(p, ctx, val)
    [] p.t = "DictMatchesPredicate" -> DictMatchesPredicate_call(p, ctx, val)
    [] p.t = "ListMatchesPredicate" -> ListMatchesPredicate_call(p, ctx, val)
    [] p.t = "DictSubsetPredicate" -> DictSubsetPredicate_call(p, ctx, val)
    [] p.t = "ListSubsetPredicate" -> ListSubsetPredicate_call(p, ctx, val)
    [] p.t = "ContainsPredicate" -> ContainsPredicate_call(p, ctx, val)
    [] p.t = "EquivalentPredicate" -> EquivalentPredicate_call(p, ctx, val)
    [] p.t = "DifferentPredicate" -> DifferentPredicate_call(p, ctx, val)

-----------------------------------------------------------------------------
(* Equality of predicates: __eq__ of the class of the left operand. *)

(* BinaryPredicate.__eq__ with the name left out of the comparison. *)
BinaryPredicate_eq_anyName(self, obj) ==
  /\ self.t = obj.t
  /\ PyEq(self.operand, obj.operand)
  /\ self.operand_type = obj.operand_type

(* Equality that leaves the operand type out. *)
BinaryPredicate_eq_anyType(self, obj) ==
  /\ self.t = obj.t
  /\ self.name = obj.name
  /\ PyEq(self.operand, obj.operand)

BinaryPredicate_eq(self, obj) ==
  /\ self.t = obj.t
  /\ self.name = obj.name
  /\ PyEq(self.operand, obj.operand)
  /\ self.operand_type = obj.operand_type

DictMatchesPredicate_eq(self, obj) ==
  BinaryPredicate_eq(self, obj) /\ self.strict = obj.strict

ListMatchesPredicate_eq(self, obj) ==
  /\ BinaryPredicate_eq(self, obj)
  /\ self.unique = obj.unique
  /\ self.strict = obj.strict

Eq(self, obj) ==
  IF self.t = "DictMatchesPredicate" THEN DictMatchesPredicate_eq(self, obj)
  ELSE IF self.t = "ListMatchesPredicate" THEN ListMatchesPredicate_eq(self, obj)
  ELSE BinaryPredicate_eq(self, obj)

-----------------------------------------------------------------------------
(* The inputs: the operands predicates are built with, and the contexts and
   values they are evaluated against. *)

Chars == {"a", "b"}

SeqsUpTo(S, n) == UNION {[1..k -> S] : k \in 0..n}

ka == <<"a">>
kb == <<"b">>
kx == <<"x">>

Ints == {PyInt(n) : n \in 1..MaxInt}
Strs == {PyStr(s) : s \in SeqsUpTo(Chars, MaxStrLen)}

(* A context binds the name a deferred key reads and the value a deferred
   operand reads. *)
Contexts ==
  { [key |-> PyStr(ka), opd |-> PyInt(1)],
    [key |-> PyStr(kb), opd |-> PyDict(<< <<ka, PyInt(1)>> >>)] }

NoContext == [key |-> PyStr(<<>>), opd |-> PyNone]

(* dicts over the keys a and b; Ordered also yields b before a. *)
DictsOver(F) ==
  {PyDict(<<>>)}
    \cup {PyDict(<< <<k, f>> >>) : k \in {ka, kb}, f \in F}
    \cup {PyDict(<< <<ka, f>>, <<kb, g>> >>) : f \in F, g \in F}

OrderedDictsOver(F) ==
  DictsOver(F) \cup {PyDict(<< <<kb, f>>, <<ka, g>> >>) : f \in F, g \in F}

(* DictSubsetPredicate: fields that are scalars, null, nested objects and
   arrays. *)
InnerDicts == {PyDict(<<>>)} \cup {PyDict(<< <<kx, n>> >>) : n \in Ints}

FieldValues ==
  Ints \cup {PyStr(<<"a">>), PyNone} \cup InnerDicts
    \cup {PyList(<<PyInt(1)>>), PyList(<<PyNone>>)}

SubsetValues == DictsOver(FieldValues) \cup {PyInt(1)}

SubsetOperands ==
  OrderedDictsOver(FieldValues \cup {PyCallable("opd")})
    \cup {PyCallable("opd"), PyList(<<>>)}

(* DictMatchesPredicate: field predicates under literal and deferred keys. *)
FieldPreds ==
  { StandardBinaryPredicateFactory_call(NUM_EQ, PyInt(1)),
    StandardBinaryPredicateFactory_call(NUM_GE, PyInt(2)),
    StandardBinaryPredicateFactory_call(STR_EQ, PyStr(<<"a">>)) }

PatternKeys == {PyStr(ka), PyStr(kb), PyCallable("key")}

MatchOperands ==
  {PyDict(<<>>), PyList(<<>>)}
    \cup {PyDict(<< <<k, p>> >>) : k \in PatternKeys, p \in FieldPreds}
    \cup {PyDict(<< <<k[1], p>>, <<k[2], q>> >>) :
            k \in {kk \in PatternKeys \X PatternKeys : kk[1] # kk[2]},
            p \in FieldPreds, q \in FieldPreds}

MatchValues == DictsOver(Ints \cup {PyStr(<<"a">>)}) \cup {PyList(<<>>)}

(* ListMatchesPredicate: patterns that overlap (x == 1 and x >= 1) and
   patterns that do not. *)
ElemPreds ==
  { StandardBinaryPredicateFactory_call(NUM_EQ, PyInt(1)),
    StandardBinaryPredicateFactory_call(NUM_GE, PyInt(1)),
    StandardBinaryPredicateFactory_call(STR_EQ, PyStr(<<"a">>)) }

ListMatchOperands ==
  {PyList(s) : s \in SeqsUpTo(ElemPreds, MaxPatterns)} \cup {PyDict(<<>>)}

ListMatchValues ==
  {PyList(s) : s \in SeqsUpTo(Ints \cup {PyStr(<<"a">>)}, MaxListLen)}
    \cup {PyInt(1)}

(* ContainsPredicate, EquivalentPredicate and DifferentPredicate: values of
   every shape, arrays of mixed elements. *)
PolyScalars ==
  Ints \cup {PyFloat(1), PyBool(1), PyNone} \cup {PyStr(<<"a">>), PyStr(<<"a", "b">>)}

PolyDicts == {PyDict(<< <<ka, PyInt(1)>> >>), PyDict(<< <<ka, PyInt(1)>>, <<kb, PyInt(2)>> >>)}

PolyElems ==
  {PyInt(1), PyInt(2), PyStr(<<"a">>), PyFloat(1), PyList(<<PyInt(1), PyInt(2)>>)}

PolyLists == {PyList(s) : s \in SeqsUpTo(PolyElems, MaxPolyLen)}

PolyValues == PolyScalars \cup PolyDicts \cup PolyLists

PolyOperands == (PolyValues \ {PyNone}) \cup {PyCallable("opd")}

(* ListSubsetPredicate: operands of scalars, arrays and objects against
   arrays whose members are scalars, arrays, objects and null. *)
ListSubsetElems ==
  {PyInt(1), PyInt(2), PyStr(<<"a">>), PyBool(1), PyNone, PyList(<<PyInt(1)>>),
   PyDict(<< <<ka, PyInt(1)>> >>)}

ListSubsetMembers ==
  {PyInt(1), PyFloat(1), PyStr(<<"a">>), PyNone, PyList(<<PyInt(1)>>),
   PyList(<<PyInt(2), PyInt(1)>>), PyDict(<< <<ka, PyInt(1)>> >>),
   PyDict(<< <<ka, PyInt(1)>>, <<kb, PyInt(2)>> >>),
   PyDict(<< <<ka, PyDict(<< <<kb, PyInt(1)>> >>)>> >>)}

ListSubsetOperands ==
  {PyList(<<>>), PyDict(<<>>), PyCallable("opd")}
    \cup {PyList(<<e>>) : e \in ListSubsetElems}
    \cup {PyList(<<e, f>>) : e \in ListSubsetElems, f \in ListSubsetElems}

ListSubsetValues ==
  {PyList(<<>>), PyInt(1)}
    \cup {PyList(<<m>>) : m \in ListSubsetMembers}
    \cup {PyList(<<m, n>>) : m \in ListSubsetMembers, n \in ListSubsetMembers}

(* The standard factories; LIST_SIMILAR over arrays of numbers and strings. *)
Factories ==
  { NUM_LE, NUM_GE, NUM_EQ, NUM_NE, STR_SUBSTR, STR_EQ, STR_NE,
    DICT_EQ, DICT_NE, LIST_EQ, LIST_NE, LIST_SIMILAR }

SimElems == {PyInt(1), PyInt(2), PyFloat(1), PyStr(<<"a">>)}

SimLists == {PyList(s) : s \in SeqsUpTo(SimElems, MaxListLen)}

StandardOperands(factory) ==
  IF factory = LIST_SIMILAR THEN SimLists \cup {PyInt(1), PyCallable("opd")}
  ELSE Ints \cup Strs \cup PolyDicts
         \cup {PyList(<<PyInt(1), PyInt(2)>>), PyList(<<PyInt(2), PyInt(1)>>),
               PyCallable("opd")}

StandardValues(p) ==
  IF p.comparison_op = "lists_equivalent" THEN SimLists \cup {PyInt(1)}
  ELSE Ints \cup Strs \cup PolyDicts
         \cup {PyList(<<PyInt(1), PyInt(2)>>), PyList(<<PyInt(2), PyInt(1)>>),
               PyFloat(1), PyNone}

(* The predicates a predicate p is compared with: instances of every class
   and factory built on p's operand or on another one, with either flags. *)
(* Factories a caller makes with StandardBinaryPredicateFactory(name,
   comparison_op, operand_type=...): the name of a factory of the module bound
   to another comparison. *)
CustomFactories ==
  { StandardBinaryPredicateFactory("==", "ne", NumT),
    StandardBinaryPredicateFactory("<=", "ge", NumT) }

EqPeers(p) ==
  { q \in
      {StandardBinaryPredicateFactory_call(f, o) :
         f \in Factories \cup CustomFactories,
         o \in {p.operand, PyInt(2), PyFloat(1)}}
        \cup {DictMatchesPredicate_init(p.operand, st) : st \in BOOLEAN}
        \cup {ListMatchesPredicate_init(p.operand, st, un) :
                st \in BOOLEAN, un \in BOOLEAN}
        \cup {DICT_SUBSET(p.operand), CONTAINS(p.operand), EQUIVALENT(p.operand),
              DIFFERENT(p.operand), DIFFERENT(PyInt(2))}
    : ~IsRaise(q) }

-----------------------------------------------------------------------------
(* The state machine: a predicate is constructed, then evaluated or compared
   once. *)

NoPred == [t |-> "none"]
NoResult == [t |-> "none"]

NoTestArgs == [max_retries |-> 0, retry_interval_secs |-> 0, timeout_ok |-> FALSE]

(* The arguments a constructor is called with: the class, the operand and
   the operand_type keyword (the factory's, for a standard predicate). *)
Args(cls, operand, operand_type) ==
  [cls |-> cls, operand |-> operand, operand_type |-> operand_type]

NoArgs == Args("none", PyNone, NoType)

Threads == {"t1", "t2"}

(* A thread that is not evaluating. `passed` is the value as it was handed
   to the evaluation, `overlapped` records that the other thread was inside
   an evaluation while this one ran. *)
NoFrame ==
  [pc |-> "idle", context |-> NoContext, value |-> PyNone, passed |-> PyNone,
   i |-> 0, builder |-> SequencedPredicateResultBuilder(NoPred), valid |-> TRUE,
   matched_element_count |-> <<>>, sorted_a |-> <<>>, sorted_b |-> <<>>,
   overlapped |-> FALSE, result |-> NoResult]

Init ==
  /\ pc = "idle"
  /\ args = NoArgs
  /\ pred = NoPred
  /\ context = NoContext
  /\ value = PyNone
  /\ result = NoResult
  /\ threads = [t \in Threads |-> NoFrame]
  /\ tc_pc = "idle"
  /\ tc_args = NoTestArgs
  /\ tc_i = 0
  /\ attempts = <<>>
  /\ status = <<>>
  /\ exception = "none"
  /\ log = <<>>
  /\ parts = <<>>
  /\ status_check = "none"

Constructed(a, p) ==
  /\ pc = "idle"
  /\ args' = a
  /\ pred' = p
  /\ pc' = IF IsRaise(p) THEN "construct_raised" ELSE "constructed"
  /\ UNCHANGED <<context, value, result, threads, testVars>>

Evaluated(ctx, val, r) ==
  /\ context' = ctx
  /\ value' = val
  /\ result' = r
  /\ pc' = IF IsRaise(r) THEN "raised" ELSE "returned"
  /\ UNCHANGED <<args, pred, threads, testVars>>

ConstructDictSubset ==
  /\ pc = "idle"
  /\ \E a \in SubsetOperands :
    Constructed(Args("DictSubsetPredicate", a, NoType), DICT_SUBSET(a))

EvaluateDictSubset ==
  /\ pc = "constructed"
  /\ pred.t = "DictSubsetPredicate"
  /\ \E ctx \in Contexts, b \in SubsetValues :
       Evaluated(ctx, b, DictSubsetPredicate_call(pred, ctx, b))

ConstructListSubset ==
  /\ pc = "idle"
  /\ \E o \in ListSubsetOperands, strict \in BOOLEAN :
    Constructed(Args("ListSubsetPredicate", o, NoType),
                ListSubsetPredicate_init(o, strict))

EvaluateListSubset ==
  /\ pc = "constructed"
  /\ pred.t = "ListSubsetPredicate"
  /\ \E ctx \in Contexts, b \in ListSubsetValues :
       Evaluated(ctx, b, ListSubsetPredicate_call(pred, ctx, b))

ConstructDictMatches ==
  /\ pc = "idle"
  /\ \E o \in MatchOperands, strict \in BOOLEAN :
    Constructed(Args("DictMatchesPredicate", o, NoType),
                DictMatchesPredicate_init(o, strict))

EvaluateDictMatches ==
  /\ pc = "constructed"
  /\ pred.t = "DictMatchesPredicate"
  /\ \E ctx \in Contexts, b \in MatchValues :
       Evaluated(ctx, b, DictMatchesPredicate_call(pred, ctx, b))

ConstructListMatches ==
  /\ pc = "idle"
  /\ \E o \in ListMatchOperands, strict \in BOOLEAN, unique \in BOOLEAN :
    Constructed(Args("ListMatchesPredicate", o, NoType),
                ListMatchesPredicate_init(o, strict, unique))

EvaluateListMatches ==
  /\ pc = "constructed"
  /\ pred.t = "ListMatchesPredicate"
  /\ \E ctx \in Contexts, b \in ListMatchValues :
       Evaluated(ctx, b, ListMatchesPredicate_call(pred, ctx, b))

ConstructContains ==
  /\ pc = "idle"
  /\ \E o \in PolyOperands : Constructed(Args("ContainsPredicate", o, NoType), CONTAINS(o))

EvaluateContains ==
  /\ pc = "constructed"
  /\ pred.t = "ContainsPredicate"
  /\ \E ctx \in Contexts, b \in PolyValues :
       Evaluated(ctx, b, ContainsPredicate_call(pred, ctx, b))

ConstructEquivalent ==
  /\ pc = "idle"
  /\ \E o \in PolyOperands : Constructed(Args("EquivalentPredicate", o, NoType), EQUIVALENT(o))

EvaluateEquivalent ==
  /\ pc = "constructed"
  /\ pred.t = "EquivalentPredicate"
  /\ \E ctx \in Contexts, b \in PolyValues :
       Evaluated(ctx, b, EquivalentPredicate_call(pred, ctx, b))

ConstructDifferent ==
  /\ pc = "idle"
  /\ \E o \in PolyOperands : Constructed(Args("DifferentPredicate", o, NoType), DIFFERENT(o))

EvaluateDifferent ==
  /\ pc = "constructed"
  /\ pred.t = "DifferentPredicate"
  /\ \E ctx \in Contexts, b \in PolyValues :
       Evaluated(ctx, b, DifferentPredicate_call(pred, ctx, b))

ConstructStandard ==
  /\ pc = "idle"
  /\ \E factory \in Factories :
    \E o \in StandardOperands(factory) :
      Constructed(Args("StandardBinaryPredicate", o, factory.operand_type),
                  StandardBinaryPredicateFactory_call(factory, o))

EvaluateStandard ==
  /\ pc = "constructed"
  /\ pred.t = "StandardBinaryPredicate"
  /\ \E ctx \in Contexts, b \in StandardValues(pred) :
       Evaluated(ctx, b, StandardBinaryPredicate_call(pred, ctx, b))

(* pred == obj *)
CompareEqual ==
  /\ pc = "constructed"
  /\ \E obj \in EqPeers(pred) :
       /\ value' = obj
       /\ result' = Eq(pred, obj)
       /\ pc' = "compared"
       /\ UNCHANGED <<args, pred, context, threads, testVars>>

Next ==
  \/ ConstructDictSubset
  \/ EvaluateDictSubset
  \/ ConstructListSubset
  \/ EvaluateListSubset
  \/ ConstructDictMatches
  \/ EvaluateDictMatches
  \/ ConstructListMatches
  \/ EvaluateListMatches
  \/ ConstructContains
  \/ EvaluateContains
  \/ ConstructEquivalent
  \/ EvaluateEquivalent
  \/ ConstructDifferent
  \/ EvaluateDifferent
  \/ ConstructStandard
  \/ EvaluateStandard
  \/ CompareEqual

Spec == Init /\ [][Next]_vars

-----------------------------------------------------------------------------
(* AgentTestCase.run_test_case and assertFinalStatusOk. *)

(* What an AgentOperationStatus reports. A status that finished ok has
   finished and has not timed out. *)
Statuses ==
  { s \in [finished : BOOLEAN, finished_ok : BOOLEAN, timed_out : BOOLEAN,
           exception_details : BOOLEAN] :
      s.finished_ok => (s.finished /\ ~s.timed_out) }

(* assertFinalStatusOk(status, timeout_ok): "accepted" where it returns
   without looking at finished_ok, "passed" and "failed" for assertTrue. *)
assertFinalStatusOk(st, timeout_ok) ==
  IF ~st.finished /\ timeout_ok THEN "accepted"
  ELSE IF st.timed_out THEN "accepted"
  ELSE IF st.finished_ok THEN "passed"
  ELSE "failed"

max_tries(max_retries) == 1 + max_retries

(* The loop is never left early. *)
BreaksLoop_never(st) == FALSE

(* `if not status.exception_details: break` *)
BreaksLoop(st) == ~st.exception_details

(* log_start_test and the checks of the arguments, up to the report section. *)
RunTestCase_start ==
  /\ tc_pc = "idle"
  /\ \E mr \in -1..MaxRetries, ris \in {-1, 5}, tok \in BOOLEAN :
       /\ tc_args' = [max_retries |-> mr, retry_interval_secs |-> ris,
                      timeout_ok |-> tok]
       /\ log' = Append(log, "start")
       /\ IF mr < 0 \/ ris < 0
            THEN /\ exception' = "ValueError"
                 /\ tc_pc' = "done"
            ELSE /\ exception' = exception
                 /\ tc_pc' = "execute"
  /\ UNCHANGED <<tc_i, attempts, status, parts, status_check, predVars>>

(* One pass of the loop: execute, wait, the part of the attempt, and the
   choice between leaving the loop, sleeping and giving up. *)
RunTestCase_attempt ==
  /\ tc_pc = "execute"
  /\ \/ (* execute or wait raises *)
        /\ status' = <<>>
        /\ attempts' = Append(attempts, <<>>)
        /\ exception' = "Exception"
        /\ tc_pc' = "except"
        /\ UNCHANGED <<tc_i, parts>>
     \/ \E st \in Statuses :
          /\ status' = <<st>>
          /\ attempts' = Append(attempts, <<st>>)
          /\ parts' = Append(parts, "Attempt")
          /\ exception' = exception
          /\ IF BreaksLoop(st)
               THEN tc_i' = tc_i /\ tc_pc' = "assert"
             ELSE IF max_tries(tc_args.max_retries) - tc_i > 1
               THEN tc_i' = tc_i + 1 /\ tc_pc' = "execute"
             ELSE tc_i' = tc_i /\ tc_pc' = "assert"
  /\ UNCHANGED <<tc_args, log, status_check, predVars>>

RunTestCase_assertFinalStatusOk ==
  /\ tc_pc = "assert"
  /\ status_check' = assertFinalStatusOk(status[1], tc_args.timeout_ok)
  /\ IF status_check' = "failed"
       THEN exception' = "AssertionError" /\ tc_pc' = "except"
       ELSE exception' = exception /\ tc_pc' = "contract"
  /\ UNCHANGED <<tc_args, tc_i, attempts, status, log, parts, predVars>>

(* assertContract: contract.verify() raises, or the Verification part is
   appended and the clauses hold or do not. *)
RunTestCase_assertContract ==
  /\ tc_pc = "contract"
  /\ \/ /\ exception' = "Exception"
        /\ tc_pc' = "except"
        /\ parts' = parts
     \/ \E verify_results \in BOOLEAN :
          /\ parts' = Append(parts, "Verification")
          /\ IF verify_results
               THEN exception' = exception /\ tc_pc' = "finally"
               ELSE exception' = "AssertionError" /\ tc_pc' = "except"
  /\ UNCHANGED <<tc_args, tc_i, attempts, status, log, status_check, predVars>>

(* except Exception: the EXCEPTION part, and the exception goes on. *)
RunTestCase_except ==
  /\ tc_pc = "except"
  /\ parts' = Append(parts, "EXCEPTION")
  /\ tc_pc' = "finally"
  /\ UNCHANGED <<tc_args, tc_i, attempts, status, exception, log, status_check,
                 predVars>>

(* finally: log_end_test and report(section). *)
RunTestCase_finally ==
  /\ tc_pc = "finally"
  /\ log' = log \o <<"end", "report">>
  /\ tc_pc' = "done"
  /\ UNCHANGED <<tc_args, tc_i, attempts, status, exception, parts, status_check,
                 predVars>>

TestNext ==
  \/ RunTestCase_start
  \/ RunTestCase_attempt
  \/ RunTestCase_assertFinalStatusOk
  \/ RunTestCase_assertContract
  \/ RunTestCase_except
  \/ RunTestCase_finally

TestSpec == Init /\ [][TestNext]_vars

-----------------------------------------------------------------------------
(* Two threads evaluate one predicate instance, each with its own context
   and value, a statement of __call__ at a time. *)

SharedPatterns ==
  {PyList(<<p>>) : p \in ElemPreds} \cup {PyList(<<p, q>>) : p \in ElemPreds, q \in ElemPreds}

SharedLists ==
  {PyList(<<PyInt(1), PyInt(2)>>), PyList(<<PyInt(2), PyInt(1)>>),
   PyList(<<PyInt(2), PyStr(<<"a">>)>>), PyCallable("opd")}

ThreadValues ==
  {PyList(<<PyInt(1), PyInt(2)>>), PyList(<<PyInt(2), PyInt(1)>>),
   PyList(<<PyStr(<<"a">>), PyInt(1)>>), PyInt(1)}

(* What list x holds after list.sort() was applied to it. *)
AfterSorted_inPlace(x) == PyList(sorted(x.elems))

(* What list x holds after sorted(x) was computed: sorted builds a new list. *)
AfterSorted(x) == x

ShareListMatches ==
  /\ pc = "idle"
  /\ \E o \in SharedPatterns, strict \in BOOLEAN, unique \in BOOLEAN :
    Constructed(Args("ListMatchesPredicate", o, NoType),
                ListMatchesPredicate_init(o, strict, unique))

ShareEquivalent ==
  /\ pc = "idle"
  /\ \E o \in SharedLists : Constructed(Args("EquivalentPredicate", o, NoType), EQUIVALENT(o))

(* Thread t goes on with frame f; pred is what the shared instance then is. *)
ThreadStep(t, f, p) ==
  /\ threads' = [threads EXCEPT ![t] =
       [f EXCEPT !.overlapped =
          threads[t].overlapped
            \/ \E u \in Threads \ {t} : threads[u].pc \notin {"idle", "done"}]]
  /\ pred' = p
  /\ UNCHANGED <<pc, args, context, value, result, testVars>>

Returned(f, r) == [f EXCEPT !.pc = "done", !.result = r]

(* ListMatchesPredicate.__call__ up to its loop. *)
ListMatches_enter(t) ==
  /\ pc = "constructed"
  /\ pred.t = "ListMatchesPredicate"
  /\ threads[t].pc = "idle"
  /\ \E ctx \in Contexts, val \in ThreadValues :
       LET f == [threads[t] EXCEPT !.context = ctx, !.value = val, !.passed = val]
       IN IF ~isinstance(val, ListT)
            THEN ThreadStep(t, Returned(f, TypeMismatchError(ListT, val.t, val, <<>>,
                                                             NoPathValue)), pred)
            ELSE ThreadStep(t,
                   [f EXCEPT !.pc = "patterns", !.i = 1,
                             !.builder = SequencedPredicateResultBuilder(pred),
                             !.valid = TRUE,
                             !.matched_element_count =
                                [index \in 1..Len(val.elems) |-> 0]],
                   pred)

(* One pass of `for match_pred in self.operand`. *)
ListMatches_pattern(t) ==
  LET f == threads[t] IN
  /\ f.pc = "patterns"
  /\ f.i <= Len(pred.operand.elems)
  /\ With(MapPredicate_call(pred.operand.elems[f.i], MaxCount(pred), f.context,
                            f.value, 1, <<>>),
       LAMBDA pred_result :
         IF IsRaise(pred_result) THEN ThreadStep(t, Returned(f, pred_result), pred)
         ELSE ThreadStep(t,
                [f EXCEPT !.i = f.i + 1,
                          !.builder = append_result(f.builder, pred_result),
                          !.valid = IF ~pred_result.valid THEN FALSE ELSE f.valid,
                          !.matched_element_count =
                             [index \in 1..Len(f.value.elems) |->
                                f.matched_element_count[index]
                                  + (IF pred_result.results[index].valid THEN 1 ELSE 0)]],
                pred))

(* After the loop: the strictness errors and build. *)
ListMatches_return(t) ==
  LET f == threads[t] IN
  /\ f.pc = "patterns"
  /\ f.i > Len(pred.operand.elems)
  /\ With(IF pred.strict
            THEN ListMatchesPredicate_find_strictness_errors(
                   f.matched_element_count, f.value, 1)
            ELSE <<>>,
       LAMBDA strictness_errors :
         ThreadStep(t,
           Returned(f,
             IF strictness_errors # <<>>
               THEN SequencedPredicateResultBuilder_build(
                      extend_results(f.builder, strictness_errors), FALSE)
               ELSE SequencedPredicateResultBuilder_build(f.builder, f.valid)),
           pred))

(* EquivalentPredicate.__call__ down to lists_equivalent(value, operand),
   which it enters for two lists of the same length. *)
Equivalent_enter(t) ==
  /\ pc = "constructed"
  /\ pred.t = "EquivalentPredicate"
  /\ threads[t].pc = "idle"
  /\ \E ctx \in Contexts, val \in ThreadValues :
       LET f == [threads[t] EXCEPT !.context = ctx, !.value = val, !.passed = val]
       IN IF /\ isinstance(val, ListT)
             /\ isinstance(pred.operand, ListT)
             /\ Len(val.elems) = Len(pred.operand.elems)
            THEN ThreadStep(t, [f EXCEPT !.pc = "sorted_a"], pred)
            ELSE ThreadStep(t, Returned(f, EquivalentPredicate_call(pred, ctx, val)),
                            pred)

(* sorted_a = sorted(a), a being the value. *)
lists_equivalent_sorted_a(t) ==
  LET f == threads[t] IN
  /\ f.pc = "sorted_a"
  /\ ThreadStep(t, [f EXCEPT !.pc = "sorted_b", !.sorted_a = sorted(f.value.elems),
                             !.value = AfterSorted(f.value)],
                pred)

(* sorted_b = sorted(b), b being the operand of the shared instance. *)
lists_equivalent_sorted_b(t) ==
  LET f == threads[t] IN
  /\ f.pc = "sorted_b"
  /\ ThreadStep(t, [f EXCEPT !.pc = "compare", !.sorted_b = sorted(pred.operand.elems)],
                [pred EXCEPT !.operand = AfterSorted(pred.operand)])

(* The loop over sorted_a, and the result of LIST_SIMILAR(operand). *)
lists_equivalent_compare(t) ==
  LET f == threads[t] IN
  /\ f.pc = "compare"
  /\ ThreadStep(t,
       Returned(f,
         PathValueResult(StandardBinaryPredicateFactory_call(LIST_SIMILAR, pred.operand),
                         f.value, <<>>, PathValue(<<>>, f.value),
                         \A index \in 1..Len(f.sorted_a) :
                           PyEq(f.sorted_b[index], f.sorted_a[index]))),
       pred)

ConcurrentNext ==
  \/ ShareListMatches
  \/ ShareEquivalent
  \/ \E t \in Threads :
       \/ ListMatches_enter(t)
       \/ ListMatches_pattern(t)
       \/ ListMatches_return(t)
       \/ Equivalent_enter(t)
       \/ lists_equivalent_sorted_a(t)
       \/ lists_equivalent_sorted_b(t)
       \/ lists_equivalent_compare(t)

ConcurrentSpec == Init /\ [][ConcurrentNext]_vars

-----------------------------------------------------------------------------
(* Properties of DictSubsetPredicate. *)

EvaluatedDictSubset ==
  /\ pc \in {"returned", "raised"}
  /\ pred.t = "DictSubsetPredicate"
  /\ isinstance(pred.operand, DictT)
  /\ isinstance(value, DictT)

IsScalar(x) == x.t \in NumT \cup StrT \cup {"NoneType"}

(* a holds a non-empty subset of b's keys, each with b's value unchanged. *)
IsCopyOfSubset(a, b) ==
  /\ a.items # <<>>
  /\ \A i \in 1..Len(a.items) :
       HasKey(b, a.items[i][1]) /\ DictGet(b, a.items[i][1]) = a.items[i][2]

(* C1: for every Object B and every operand A that copies a non-empty subset
   of B's keys with their values unchanged, DictSubsetPredicate(A) on B
   returns a valid result: it neither fails nor raises. *)
C1_SubsetCopyIsValid ==
  (EvaluatedDictSubset /\ IsCopyOfSubset(pred.operand, value))
    => (~IsRaise(result) /\ result.valid)

(* The paths of the scalar fields of a whose value differs from b's, when a
   agrees with b on every other field (a field of b that a omits is no
   disagreement); {<<>>} stands for a disagreement elsewhere. *)
RECURSIVE ScalarDiffs(_, _, _)
ScalarDiffs(a, b, path) ==
  UNION { LET k == a.items[i][1]
              av == a.items[i][2]
          IN IF ~HasKey(b, k) THEN {<<>>}
             ELSE LET bv == DictGet(b, k) IN
                  IF isinstance(av, DictT) /\ isinstance(bv, DictT)
                    THEN ScalarDiffs(av, bv, Append(path, k))
                  ELSE IF IsScalar(av) /\ IsScalar(bv)
                    THEN IF PyEq(av, bv) THEN {} ELSE {Append(path, k)}
                  ELSE IF av = bv THEN {} ELSE {<<>>}
        : i \in 1..Len(a.items) }

(* C2: if A agrees with B on every field except exactly one scalar field, at
   top level or nested in sub-objects, whose value in A differs from B's,
   DictSubsetPredicate(A) on B is invalid and its target_path is the path of
   that field from the root. *)
C2_OneMutatedScalarIsLocated ==
  EvaluatedDictSubset =>
    \A p \in ScalarDiffs(pred.operand, value, <<>>) :
      (p # <<>> /\ ScalarDiffs(pred.operand, value, <<>>) = {p})
        => (~IsRaise(result) /\ ~result.valid /\ result.target_path = p)

(* A field of the operand the walk of _is_subset is sure to get past: its
   counterpart in the value holds the same scalars, objects and arrays of
   numbers and strings. *)
RECURSIVE Satisfied(_, _, _)
Satisfied(ctx, av, bv) ==
  IF isinstance(bv, DictT)
    THEN /\ isinstance(av, DictT)
         /\ \A i \in 1..Len(av.items) :
              /\ HasKey(bv, av.items[i][1])
              /\ Satisfied(ctx, av.items[i][2], DictGet(bv, av.items[i][1]))
  ELSE IF isinstance(bv, ListT)
    THEN av = bv /\ \A i \in 1..Len(bv.elems) : isinstance(bv.elems[i], NumT \cup StrT)
  ELSE PyEq(context_eval(ctx, av), bv)

(* The path of the absent field the walk of a over b reaches first, if the
   fields before it are all Satisfied. *)
RECURSIVE ReachedMissing(_, _, _, _)
ReachedMissing(ctx, a, b, path) ==
  UNION { LET k == a.items[i][1]
              av == a.items[i][2]
          IN IF \E j \in 1..(i - 1) :
                  ~(HasKey(b, a.items[j][1])
                    /\ Satisfied(ctx, a.items[j][2], DictGet(b, a.items[j][1])))
               THEN {}
             ELSE IF ~HasKey(b, k) THEN {Append(path, k)}
             ELSE IF isinstance(av, DictT) /\ isinstance(DictGet(b, k), DictT)
               THEN ReachedMissing(ctx, av, DictGet(b, k), Append(path, k))
             ELSE {}
        : i \in 1..Len(a.items) }

(* C3: when the walk over the operand's fields reaches a field, at any depth,
   that is absent from the corresponding object of the value, the result is a
   MissingPathError whose target_path is that field's path, whatever the
   remaining operand fields hold. *)
C3_MissingFieldStopsTheWalk ==
  EvaluatedDictSubset =>
    \A p \in ReachedMissing(context, pred.operand, value, <<>>) :
      result.t = "MissingPathError" /\ result.target_path = p

(* A nested field is absent and a later field of the operand holds an array
   whose evaluation would raise. *)
C3_Witness ==
  /\ EvaluatedDictSubset
  /\ ReachedMissing(context, pred.operand, value, <<>>) = {<<ka, kx>>}
  /\ Len(pred.operand.items) = 2
  /\ pred.operand.items[2][2] = PyList(<<PyNone>>)
  /\ HasKey(value, kb)
  /\ result.t = "MissingPathError"

-----------------------------------------------------------------------------
(* Properties of DictMatchesPredicate. *)

EvaluatedDictMatches ==
  /\ pc \in {"returned", "raised"}
  /\ pred.t = "DictMatchesPredicate"
  /\ isinstance(value, DictT)

(* The field predicate of a pattern item holds on its field of b. *)
FieldHolds(ctx, item, b) ==
  LET name == context_eval(ctx, item[1]).s IN
  /\ HasKey(b, name)
  /\ LET r == Call(item[2], ctx, DictGet(b, name)) IN ~IsRaise(r) /\ r.valid

AllFieldsHold(ctx, patterns, b) ==
  \A i \in 1..Len(patterns.items) : FieldHolds(ctx, patterns.items[i], b)

(* The names of the operand's fields as the context resolves them. *)
ResolvedNames(ctx, patterns) ==
  {context_eval(ctx, patterns.items[i][1]).s : i \in 1..Len(patterns.items)}

(* The keys of b that are the name of no field of the pattern map. *)
ExtraKeys(ctx, patterns, b) == DictKeys(b) \ ResolvedNames(ctx, patterns)

(* C4: on an Object value, DictMatchesPredicate(patterns, strict) is valid
   if and only if every field predicate of the pattern map holds on its field
   of the value and, when strict, the value has no key that is absent from
   the pattern map; so where all field predicates hold and the value has an
   extra key, strict is invalid and non-strict is valid. *)
C4_DictMatchesValidity ==
  EvaluatedDictMatches =>
    ((~IsRaise(result) /\ result.valid)
       <=> (/\ AllFieldsHold(context, pred.operand, value)
            /\ pred.strict => ExtraKeys(context, pred.operand, value) = {}))

(* Strict matching where both field predicates hold and only the extra key
   makes the result invalid. *)
C4_Witness ==
  /\ EvaluatedDictMatches
  /\ pred.strict
  /\ pred.operand.items # <<>>
  /\ AllFieldsHold(context, pred.operand, value)
  /\ ExtraKeys(context, pred.operand, value) = {kb}
  /\ ~IsRaise(result)
  /\ ~result.valid
  /\ \E i \in 1..Len(result.results) : result.results[i][2].t = "UnexpectedPathError"

-----------------------------------------------------------------------------
(* Properties of ListMatchesPredicate. *)

EvaluatedListMatches ==
  /\ pc \in {"returned", "raised"}
  /\ pred.t = "ListMatchesPredicate"
  /\ isinstance(value, ListT)

(* The j-th pattern is satisfied by the i-th element. *)
Satisfies(ctx, patterns, j, b, i) ==
  LET r == Call(patterns.elems[j], ctx, b.elems[i]) IN ~IsRaise(r) /\ r.valid

SatisfiedCount(ctx, patterns, j, b) ==
  Cardinality({i \in 1..Len(b.elems) : Satisfies(ctx, patterns, j, b, i)})

(* The indices of the elements that satisfy no pattern. *)
Unmatched(ctx, patterns, b) ==
  {i \in 1..Len(b.elems) :
     \A j \in 1..Len(patterns.elems) : ~Satisfies(ctx, patterns, j, b, i)}

(* C5: on an Array value, ListMatchesPredicate(patterns, strict, unique) is
   valid if and only if every pattern is satisfied by at least one element,
   and by at most one when unique, and, when strict, every element satisfies
   at least one pattern. One element satisfying several patterns therefore
   never makes the result invalid, and a non-empty pattern list is invalid on
   the empty array. *)
C5_ListMatchesValidity ==
  EvaluatedListMatches =>
    ((~IsRaise(result) /\ result.valid)
       <=> (/\ \A j \in 1..Len(pred.operand.elems) :
                 /\ SatisfiedCount(context, pred.operand, j, value) >= 1
                 /\ pred.unique => SatisfiedCount(context, pred.operand, j, value) <= 1
            /\ pred.strict => Unmatched(context, pred.operand, value) = {}))

(* unique is set and one element satisfies two distinct patterns, yet the
   result is valid. *)
C5_Witness ==
  /\ EvaluatedListMatches
  /\ pred.unique
  /\ Len(pred.operand.elems) = 2
  /\ pred.operand.elems[1] # pred.operand.elems[2]
  /\ \E i \in 1..Len(value.elems) :
       /\ Satisfies(context, pred.operand, 1, value, i)
       /\ Satisfies(context, pred.operand, 2, value, i)
  /\ ~IsRaise(result)
  /\ result.valid

(* The k-th smallest member of the set of indices S. *)
Nth(S, k) == CHOOSE i \in S : Cardinality({m \in S : m < i}) = k - 1

(* '[i]' for the i-th element, counted from zero. *)
BracketedIndex(i) ==
  <<"[", <<"0", "1", "2", "3", "4", "5", "6", "7", "8", "9">>[i + 1], "]">>

(* C6: with strict set, ListMatchesPredicate appends after the per-pattern
   results exactly one UnexpectedPathError for each index of the value whose
   element satisfied no pattern, with target_path '[i]', in increasing index
   order; when every element satisfied some pattern, or strict is not set,
   nothing is appended. *)
C6_StrictnessErrorsAppended ==
  (EvaluatedListMatches /\ ~IsRaise(result)) =>
    LET n == Len(pred.operand.elems)
        unmatched == IF pred.strict THEN Unmatched(context, pred.operand, value) ELSE {}
    IN /\ Len(result.results) = n + Cardinality(unmatched)
       /\ \A j \in 1..n : result.results[j].t = "MapPredicateResult"
       /\ \A k \in 1..Cardinality(unmatched) :
            /\ result.results[n + k].t = "UnexpectedPathError"
            /\ result.results[n + k].target_path = <<BracketedIndex(Nth(unmatched, k) - 1)>>

(* Strict matching of a value whose first and last elements satisfy no
   pattern: two errors follow the pattern results. *)
C6_Witness ==
  /\ EvaluatedListMatches
  /\ ~IsRaise(result)
  /\ pred.strict
  /\ Len(pred.operand.elems) >= 1
  /\ Len(value.elems) = 3
  /\ Unmatched(context, pred.operand, value) = {1, 3}
  /\ result.results[Len(result.results)].target_path = << <<"[", "2", "]">> >>

-----------------------------------------------------------------------------
(* Properties of ContainsPredicate. *)

EvaluatedContains ==
  /\ pc \in {"returned", "raised"}
  /\ pred.t = "ContainsPredicate"

(* What factory(operand)(context, value) yields, the construction included. *)
Applied(p, ctx, val) == Propagate(p, LAMBDA q : Call(q, ctx, val))

(* C7: ContainsPredicate(operand) dispatches on the value's type: on a
   String value its result is that of the substring test, on an Object value
   that of DictSubset(operand), on an Array value with an Array operand that
   of ListSubset(operand), and on every Numeric value, integer or floating
   point, that of numeric equality with the operand; none of these value
   types is rejected as an unsupported shape. *)
C7_ContainsDispatch ==
  EvaluatedContains =>
    /\ isinstance(value, StrT) =>
         result = Applied(StandardBinaryPredicateFactory_call(STR_SUBSTR, pred.operand),
                          context, value)
    /\ isinstance(value, DictT) =>
         result = Applied(DICT_SUBSET(pred.operand), context, value)
    /\ (isinstance(value, ListT) /\ isinstance(pred.operand, ListT)) =>
         result = Applied(LIST_SUBSET(pred.operand), context, value)
    /\ isinstance(value, NumT) =>
         result = Applied(StandardBinaryPredicateFactory_call(NUM_EQ, pred.operand),
                          context, value)
    /\ isinstance(value, StrT \cup DictT \cup ListT \cup NumT) =>
         result # Raise("NotImplementedError")

(* Contains(operand) is valid on the i-th element of b. *)
ElemContains(p, ctx, b, i) ==
  LET r == ContainsPredicate_call(p, ctx, b.elems[i]) IN ~IsRaise(r) /\ r.valid

(* C8: on an Array value with a non-Array operand, ContainsPredicate returns
   the result of the first element on which Contains(operand) is valid; if
   no element contains the operand, elements of another type than the
   operand's included, it returns an invalid result whose path_value carries
   all the elements, and it does not raise. *)
C8_ContainsSearchesElements ==
  (EvaluatedContains /\ isinstance(value, ListT) /\ ~isinstance(pred.operand, ListT)) =>
    LET hits == {i \in 1..Len(value.elems) : ElemContains(pred, context, value, i)}
    IN /\ ~IsRaise(result)
       /\ IF hits # {}
            THEN result = ContainsPredicate_call(pred, context,
                                                 value.elems[Nth(hits, 1)])
            ELSE /\ ~result.valid
                 /\ result.path_value.value = PyList(value.elems)

-----------------------------------------------------------------------------
(* Properties of EquivalentPredicate and DifferentPredicate. *)

TypeFamily(v) ==
  IF isinstance(v, StrT) THEN StrT
  ELSE IF isinstance(v, DictT) THEN DictT
  ELSE IF isinstance(v, ListT) THEN ListT
  ELSE NumT

(* The type-specific equality or inequality predicate of a type family. *)
TypeSpecific(cls, family) ==
  IF cls = "EquivalentPredicate"
    THEN (IF family = StrT THEN STR_EQ ELSE IF family = DictT THEN DICT_EQ
          ELSE IF family = ListT THEN LIST_SIMILAR ELSE NUM_EQ)
    ELSE (IF family = StrT THEN STR_NE ELSE IF family = DictT THEN DICT_NE
          ELSE IF family = ListT THEN LIST_NE ELSE NUM_NE)

(* C9: on every String, Object, Array or Number value, integer or floating
   point, EquivalentPredicate(operand) and DifferentPredicate(operand)
   resolve the operand through the context and return a result: a
   TypeMismatchError when the resolved operand is not of the value's type
   family, else the result of the type-specific equality or inequality
   predicate. *)
C9_EquivalentDifferentReturn ==
  (/\ pc \in {"returned", "raised"}
   /\ pred.t \in {"EquivalentPredicate", "DifferentPredicate"}
   /\ isinstance(value, StrT \cup DictT \cup ListT \cup NumT)) =>
    LET operand == context_eval(context, pred.operand)
        family == TypeFamily(value)
    IN /\ ~IsRaise(result)
       /\ IF ~isinstance(operand, family)
            THEN result.t = "TypeMismatchError"
            ELSE result = Applied(StandardBinaryPredicateFactory_call(
                                    TypeSpecific(pred.t, family), operand),
                                  context, value)

-----------------------------------------------------------------------------
(* Properties of LIST_SIMILAR. *)

EvaluatedListSimilar ==
  /\ pc = "returned"
  /\ pred.t = "StandardBinaryPredicate"
  /\ pred.comparison_op = "lists_equivalent"
  /\ isinstance(pred.operand, ListT)
  /\ isinstance(value, ListT)

Occurrences(s, e) == Cardinality({i \in 1..Len(s) : PyEq(s[i], e)})

SameMultiset(s, u) ==
  \A e \in {s[i] : i \in 1..Len(s)} \cup {u[i] : i \in 1..Len(u)} :
    Occurrences(s, e) = Occurrences(u, e)

(* C10: LIST_SIMILAR is commutative and order-independent: LIST_SIMILAR(a)
   on b is valid iff LIST_SIMILAR(b) on a is valid iff a and b are equal as
   multisets; so arrays of different length are never similar and every
   permutation of an array is similar to it. *)
C10_ListSimilarIsMultisetEquality ==
  EvaluatedListSimilar =>
    /\ result.valid <=> SameMultiset(pred.operand.elems, value.elems)
    /\ result.valid <=>
         Applied(StandardBinaryPredicateFactory_call(LIST_SIMILAR, value),
                 context, pred.operand).valid
    /\ Len(pred.operand.elems) # Len(value.elems) => ~result.valid

(* Two arrays of three elements, numbers and a string, in different orders,
   found similar. *)
C10_Witness ==
  /\ EvaluatedListSimilar
  /\ Len(value.elems) = 3
  /\ pred.operand.elems # value.elems
  /\ \E i \in 1..3 : isinstance(value.elems[i], StrT)
  /\ value.elems[1] # value.elems[2]
  /\ value.elems[1] # value.elems[3]
  /\ result.valid

-----------------------------------------------------------------------------
(* Properties of a predicate with a declared operand type. *)

(* C11: for a predicate with a declared operand type, constructing it with a
   literal operand that violates the type raises at construction; a deferred
   operand is accepted at construction and raises at evaluation if it
   resolves to a violating value, whatever the value is; with a conforming
   operand a value whose type fails the constraint gets a TypeMismatchError,
   and any other value a result whose validity is
   comparison_op(value, resolved operand). *)
C11_OperandTypeIsFatalValueTypeIsResult ==
  (args.cls = "StandardBinaryPredicate" /\ pc # "idle") =>
    LET violating == ~callable(args.operand)
                       /\ ~isinstance(args.operand, args.operand_type)
    IN /\ (pc = "construct_raised") <=> violating
       /\ pc = "construct_raised" => pred = Raise("TypeError")
       /\ pc \in {"returned", "raised"} =>
            LET operand == context_eval(context, args.operand) IN
            IF ~isinstance(operand, args.operand_type)
              THEN result = Raise("TypeError")
            ELSE IF ~isinstance(value, args.operand_type)
              THEN result.t = "TypeMismatchError"
            ELSE /\ result.t = "PathValueResult"
                 /\ result.valid = comparison_op(pred.comparison_op, value, operand)

(* A deferred operand was accepted at construction and resolved to a value of
   the wrong type when a value of the right type was evaluated. *)
C11_Witness ==
  /\ args.cls = "StandardBinaryPredicate"
  /\ callable(args.operand)
  /\ pc = "raised"
  /\ isinstance(value, args.operand_type)
  /\ ~isinstance(context_eval(context, args.operand), args.operand_type)
  /\ result = Raise("TypeError")

-----------------------------------------------------------------------------
(* Properties of predicate equality. *)

SameKindNameOperandType(p, q) ==
  /\ p.t = q.t
  /\ p.name = q.name
  /\ PyEq(p.operand, q.operand)
  /\ p.operand_type = q.operand_type

(* C12: two binary predicates compare equal if and only if they have the
   same concrete kind, the same name, equal operands and the same type
   constraint. *)
C12_EqualIffKindNameOperandType ==
  pc = "compared" => (result <=> SameKindNameOperandType(pred, value))

(* C12 as amended: the matchers also compare their flags. Two binary
   predicates compare equal if and only if they have the same concrete kind,
   the same name, equal operands, the same type constraint and, for a
   DictMatchesPredicate the same strict flag, for a ListMatchesPredicate the
   same strict and unique flags. *)
C12_EqualIffKindNameOperandTypeFlags ==
  pc = "compared" =>
    (result <=>
       /\ SameKindNameOperandType(pred, value)
       /\ pred.t = "DictMatchesPredicate" => pred.strict = value.strict
       /\ pred.t = "ListMatchesPredicate" =>
            (pred.strict = value.strict /\ pred.unique = value.unique))

(* Two ListMatchesPredicates of the same name, operand, type constraint and
   strict flag that differ in unique only were compared, and are not equal. *)
C12_Witness ==
  /\ pc = "compared"
  /\ pred.t = "ListMatchesPredicate"
  /\ SameKindNameOperandType(pred, value)
  /\ pred.strict = value.strict
  /\ pred.unique # value.unique
  /\ pred.operand.elems # <<>>
  /\ ~result

-----------------------------------------------------------------------------
(* Properties of run_test_case. *)

(* C13: in every run of run_test_case with max_retries >= 0 (and an interval
   that is accepted) the operation is executed at least once and at most
   1 + max_retries times, exactly once when max_retries is 0, and an attempt
   is followed by another one only if the status of that attempt failed (it
   reports exception details). *)
C13_AttemptsBoundedAndRetriedOnlyOnFailure ==
  (tc_pc # "idle" /\ tc_args.max_retries >= 0
     /\ tc_args.retry_interval_secs >= 0) =>
    /\ Len(attempts) <= 1 + tc_args.max_retries
    /\ tc_pc = "done" =>
         (Len(attempts) >= 1 /\ (tc_args.max_retries = 0 => Len(attempts) = 1))
    /\ \A k \in 1..(Len(attempts) - 1) :
         attempts[k] # <<>> /\ attempts[k][1].exception_details

(* Two retries were allowed; the first attempt failed, the second did not,
   and the run ended after it. *)
C13_Witness ==
  /\ tc_pc = "done"
  /\ tc_args.max_retries = 2
  /\ Len(attempts) = 2
  /\ attempts[1][1].exception_details
  /\ attempts[2] # <<>>
  /\ ~attempts[2][1].exception_details

(* C14: a timeout of the operation status is acceptable only when timeout_ok
   is True: with timeout_ok False a final status that has timed out, or never
   finished, fails the final status check, and a status is accepted without
   the finished_ok check only when timeout_ok is True. *)
C14_TimeoutAcceptedOnlyIfTimeoutOk ==
  status_check # "none" =>
    /\ (~tc_args.timeout_ok /\ (status[1].timed_out \/ ~status[1].finished))
         => status_check = "failed"
    /\ status_check = "accepted" => tc_args.timeout_ok

(* C20: every call of run_test_case that logged the start of the test has,
   when it is over, logged its end and reported the section exactly once:
   after a normal return, a failed status or contract, an exception of the
   operation, and after rejected arguments. *)
C20_StartedTestIsEndedAndReported ==
  tc_pc = "done" => log = <<"start", "end", "report">>

-----------------------------------------------------------------------------
(* Properties of ListSubsetPredicate. *)

EvaluatedListSubset ==
  /\ pc \in {"returned", "raised"}
  /\ args.cls = "ListSubsetPredicate"
  /\ isinstance(value, ListT)

(* elem is a structural subset of the member: the ListSubset or DictSubset
   predicate of elem is valid on it. *)
StructuralSubset(elem, ctx, member) ==
  With(Applied(IF isinstance(elem, ListT) THEN LIST_SUBSET(elem)
               ELSE DICT_SUBSET(elem), ctx, member),
       LAMBDA r : ~IsRaise(r) /\ r.valid)

(* The i-th element of the operand is verified against the value. *)
Verified(p, ctx, val, i) ==
  LET elem == p.operand.elems[i] IN
  IF p.strict \/ isinstance(elem, NumT \cup StrT)
    THEN \E k \in 1..Len(val.elems) : PyEq(elem, val.elems[k])
  ELSE IF isinstance(elem, ListT \cup DictT)
    THEN \E k \in 1..Len(val.elems) : StructuralSubset(elem, ctx, val.elems[k])
  ELSE FALSE

(* C15: ListSubsetPredicate(operand, strict) on an array is valid if and only
   if every element of the operand is verified against the value: a scalar,
   or any element when strict, equals some member; when not strict an array
   or object element is a structural subset of some member. An element that
   is not verified ends the evaluation with an invalid result, and the empty
   operand is valid on every array. *)
C15_ListSubsetValidity ==
  EvaluatedListSubset =>
    /\ ~IsRaise(result)
    /\ result.valid <=>
         \A i \in 1..Len(pred.operand.elems) : Verified(pred, context, value, i)

-----------------------------------------------------------------------------
(* Properties of the shapes DictSubsetPredicate meets. *)

Scalar(v) == isinstance(v, NumT \cup StrT)

(* The field of the operand and its counterpart in the value disagree in
   shape: scalars of different types, a scalar against an Object or an Array,
   an Object against a scalar. *)
ShapesDisagree(a_value, b_value) ==
  \/ Scalar(a_value) /\ Scalar(b_value) /\ TypeFamily(a_value) # TypeFamily(b_value)
  \/ Scalar(a_value) /\ isinstance(b_value, DictT \cup ListT)
  \/ isinstance(a_value, DictT) /\ Scalar(b_value)

(* C17: when the only field of a DictSubsetPredicate operand and its
   counterpart in the value disagree in shape, the evaluation never aborts:
   it returns a result, which is a failure located at that field (a
   TypeMismatchError where the types of two scalars disagree) unless the
   counterpart is an Array that contains the scalar. *)
C17_ShapeDisagreementIsAResult ==
  (/\ EvaluatedDictSubset
   /\ Len(pred.operand.items) = 1
   /\ HasKey(value, pred.operand.items[1][1])
   /\ ShapesDisagree(pred.operand.items[1][2],
                     DictGet(value, pred.operand.items[1][1]))) =>
    LET name == pred.operand.items[1][1]
        a_value == pred.operand.items[1][2]
        b_value == DictGet(value, name)
    IN /\ ~IsRaise(result)
       /\ ~isinstance(b_value, ListT) => ~result.valid
       /\ ~result.valid => result.target_path = <<name>>
       /\ (Scalar(a_value) /\ Scalar(b_value)) => result.t = "TypeMismatchError"

-----------------------------------------------------------------------------
(* Properties of DifferentPredicate on arrays. *)

(* C16: on an array value v and an array operand o, DifferentPredicate(o) is
   valid exactly when EquivalentPredicate(o) on v is invalid: the inequality
   disregards the order of the elements as the equality does, and a
   permutation of the operand is never Different from it. *)
C16_DifferentNegatesEquivalentOnArrays ==
  (/\ pc \in {"returned", "raised"}
   /\ args.cls = "DifferentPredicate"
   /\ isinstance(pred.operand, ListT)
   /\ isinstance(value, ListT)) =>
    With(Applied(EQUIVALENT(pred.operand), context, value), LAMBDA e :
      /\ ~IsRaise(result)
      /\ ~IsRaise(e)
      /\ result.valid <=> ~e.valid)

-----------------------------------------------------------------------------
(* Properties of strict DictMatchesPredicate under deferred keys. *)

(* C19: in a strict DictMatchesPredicate a key of the value that equals the
   resolved name of a field of the operand, deferred or literal, is never
   reported as an UnexpectedPathError: the entry of the aggregate under that
   name is the result of the field's predicate. *)
C19_ResolvedKeyIsNeverUnexpected ==
  (EvaluatedDictMatches /\ pred.strict /\ ~IsRaise(result)) =>
    \A j \in 1..Len(result.results) :
      result.results[j][1] \in ResolvedNames(context, pred.operand)
        => result.results[j][2].t # "UnexpectedPathError"

-----------------------------------------------------------------------------
(* Properties of evaluations that run at the same time. *)

(* C18: evaluations share no state that is written. In every interleaving of
   two evaluations of one predicate instance, each against its own context
   and value, an evaluation returns the result it returns when it runs alone,
   and the operand of the instance and the value are afterwards what they
   were: only the frame of the evaluation, with its result builder, is
   written. *)
C18_InterleavedEvaluationsAreIndependent ==
  /\ pc = "constructed" => pred.operand = args.operand
  /\ \A t \in Threads :
       /\ threads[t].value = threads[t].passed
       /\ threads[t].pc = "done" =>
            threads[t].result = Call(pred, threads[t].context, threads[t].passed)

(* Both threads have returned from evaluations of one strict list matcher on
   different values, each having run while the other was inside its
   evaluation, and with different results. *)
C18_Witness ==
  /\ pred.t = "ListMatchesPredicate"
  /\ pred.strict
  /\ \A t \in Threads : threads[t].pc = "done" /\ threads[t].overlapped
  /\ threads["t1"].passed # threads["t2"].passed
  /\ threads["t1"].result.valid
  /\ ~threads["t2"].result.valid

-----------------------------------------------------------------------------
(* Properties of equality against evaluation. *)

ComparedStandard ==
  /\ pc = "compared"
  /\ pred.t = "StandardBinaryPredicate"
  /\ value.t = "StandardBinaryPredicate"
  /\ result = TRUE

(* The factory that made p is one of the module's. *)
FromModuleFactory(p) ==
  [name |-> p.name, comparison_op |-> p.comparison_op,
   operand_type |-> p.operand_type] \in Factories

(* p and q return results of the same validity, or leave with the same
   exception, for every context and value. *)
SameValidityEverywhere(p, q) ==
  \A ctx \in Contexts, v \in PolyValues :
    With(<<Call(p, ctx, v), Call(q, ctx, v)>>, LAMBDA rs :
      IF IsRaise(rs[1]) \/ IsRaise(rs[2]) THEN rs[1] = rs[2]
      ELSE rs[1].valid = rs[2].valid)

(* C21: two StandardBinaryPredicate instances that compare equal, whatever
   factories made them, return results of the same validity for every
   context and value. *)
C21_EqualPredicatesEvaluateAlike ==
  ComparedStandard => SameValidityEverywhere(pred, value)

(* C21, as it holds: two StandardBinaryPredicate instances made by the
   factories of the module (NUM_LE ... LIST_SIMILAR) that compare equal
   return results of the same validity for every context and value. *)
C21_EqualModulePredicatesEvaluateAlike ==
  (ComparedStandard /\ FromModuleFactory(pred) /\ FromModuleFactory(value)) =>
    SameValidityEverywhere(pred, value)

(* NUM_LE(1) and NUM_LE(1.0) were compared and are equal, their operands
   being equal numbers of different types. *)
C21_Witness ==
  /\ ComparedStandard
  /\ FromModuleFactory(pred)
  /\ FromModuleFactory(value)
  /\ pred.name = "<="
  /\ pred.operand = PyInt(1)
  /\ value.operand = PyFloat(1)
====
